---------------------------- MODULE Spec2Model ----------------------------
(***************************************************************************)
(* Model of server/date_parser.py: parse_date_string and its sub-parser    *)
(* parse_time_string.                                                      *)
(*                                                                         *)
(* A Python str is a sequence of one-character strings.  The token "^2"    *)
(* stands for the single character U+00B2 (SUPERSCRIPT TWO): str.isdigit() *)
(* is True for it, the regex class \d does not match it and int() rejects  *)
(* it with ValueError.                                                     *)
(* A datetime is a record of its fields; tz is "naive" or "aware", and an  *)
(* aware datetime carries its UTC offset in minutes.                       *)
(* Exceptions are outcomes of a call: a result records either the value    *)
(* returned (and the return statement that produced it) or the exception   *)
(* that left the function.                                                 *)
(***************************************************************************)
EXTENDS Integers, Sequences, FiniteSets, TLC

---------------------------------------------------------------------------
(* Characters and the str methods the parser uses. *)

AsciiDigits == <<"0", "1", "2", "3", "4", "5", "6", "7", "8", "9">>

UpperCase == <<"A", "B", "C", "D", "E", "F", "G", "H", "I", "J", "K", "L", "M",
               "N", "O", "P", "Q", "R", "S", "T", "U", "V", "W", "X", "Y", "Z">>

LowerCase == <<"a", "b", "c", "d", "e", "f", "g", "h", "i", "j", "k", "l", "m",
               "n", "o", "p", "q", "r", "s", "t", "u", "v", "w", "x", "y", "z">>

\* regex \d (restricted to the ASCII digits of the alphabet)
IsReDigit(c) == \E i \in 1..10 : AsciiDigits[i] = c

\* one character of str.isdigit(): the decimal digits and the superscript digit
IsDigitChar(c) == IsReDigit(c) \/ c = "^2"

\* regex \s and the characters str.strip() removes (the phrases hold no line break)
IsSpace(c) == c \in {" ", "\t"}

DigitVal(c) == (CHOOSE i \in 1..10 : AsciiDigits[i] = c) - 1

\* str.lower() on one character
LowerChar(c) ==
    IF \E i \in 1..26 : UpperCase[i] = c
    THEN LowerCase[CHOOSE i \in 1..26 : UpperCase[i] = c]
    ELSE c

\* str.lower()
Lower(s) == [i \in 1..Len(s) |-> LowerChar(s[i])]

\* s[i:] with i counted from 1
From(s, i) == SubSeq(s, i, Len(s))

\* str.strip()
Strip(s) ==
    LET keep == {i \in 1..Len(s) : ~IsSpace(s[i])}
    IN IF keep = {} THEN <<>>
       ELSE SubSeq(s, CHOOSE i \in keep : \A j \in keep : i <= j,
                      CHOOSE i \in keep : \A j \in keep : j <= i)

\* s[i:].startswith(p), i counted from 1
StartsWithAt(s, i, p) ==
    /\ i + Len(p) - 1 <= Len(s)
    /\ \A k \in 1..Len(p) : s[i + k - 1] = p[k]

\* sub in s
Contains(s, sub) == \E i \in 1..(Len(s) - Len(sub) + 1) : StartsWithAt(s, i, sub)

\* str.replace(old, new): every non-overlapping occurrence, left to right
RECURSIVE Replace(_, _, _)
Replace(s, old, new) ==
    IF Len(s) = 0 THEN <<>>
    ELSE IF StartsWithAt(s, 1, old)
         THEN new \o Replace(From(s, Len(old) + 1), old, new)
         ELSE <<s[1]>> \o Replace(From(s, 2), old, new)

\* number of characters from position i on that satisfy the class, up to max
RECURSIVE RunOfDigits(_, _, _)
RunOfDigits(s, i, max) ==
    IF max = 0 \/ i > Len(s) \/ ~IsReDigit(s[i]) THEN 0
    ELSE 1 + RunOfDigits(s, i + 1, max - 1)

RECURSIVE RunOfSpaces(_, _)
RunOfSpaces(s, i) ==
    IF i > Len(s) \/ ~IsSpace(s[i]) THEN 0
    ELSE 1 + RunOfSpaces(s, i + 1)

\* str.isdigit()
IsDigitStr(s) == Len(s) > 0 /\ \A i \in 1..Len(s) : IsDigitChar(s[i])

\* int(s) accepts s: here s holds digit characters only
IntAccepts(s) == Len(s) > 0 /\ \A i \in 1..Len(s) : IsReDigit(s[i])

\* int(s) for a string of ASCII digits
RECURSIVE IntOf(_)
IntOf(s) ==
    IF Len(s) = 0 THEN 0
    ELSE IntOf(SubSeq(s, 1, Len(s) - 1)) * 10 + DigitVal(s[Len(s)])

\* str(n) for n >= 0 (builds the phrases given to the parser)
RECURSIVE StrOf(_)
StrOf(n) ==
    IF n < 10 THEN <<AsciiDigits[n + 1]>>
    ELSE StrOf(n \div 10) \o <<AsciiDigits[(n % 10) + 1]>>

---------------------------------------------------------------------------
(* The datetime values and arithmetic the parser relies on (proleptic      *)
(* Gregorian calendar, years 1..9999, as datetime implements it).          *)

IsLeap(y) == y % 4 = 0 /\ (y % 100 /= 0 \/ y % 400 = 0)

DaysInMonth(y, m) ==
    IF m = 2 THEN (IF IsLeap(y) THEN 29 ELSE 28)
    ELSE IF m \in {4, 6, 9, 11} THEN 30 ELSE 31

DaysBeforeYear(y) ==
    (y - 1) * 365 + (y - 1) \div 4 - (y - 1) \div 100 + (y - 1) \div 400

RECURSIVE DaysBeforeMonth(_, _)
DaysBeforeMonth(y, m) ==
    IF m = 1 THEN 0 ELSE DaysBeforeMonth(y, m - 1) + DaysInMonth(y, m - 1)

\* date.toordinal(): 0001-01-01 is day 1
Ymd2Ord(y, m, d) == DaysBeforeYear(y) + DaysBeforeMonth(y, m) + d

\* datetime.max.toordinal()
MaxOrdinal == Ymd2Ord(9999, 12, 31)

\* date.fromordinal(n), 1 <= n <= MaxOrdinal
Ord2Ymd(n) ==
    LET n0   == n - 1
        n400 == n0 \div 146097
        r400 == n0 % 146097
        n100 == r400 \div 36524
        r100 == r400 % 36524
        n4   == r100 \div 1461
        r4   == r100 % 1461
        n1   == r4 \div 365
        r1   == r4 % 365
        year == n400 * 400 + 1 + n100 * 100 + n4 * 4 + n1
    IN IF n1 = 4 \/ n100 = 4
       THEN [year |-> year - 1, month |-> 12, day |-> 31]
       ELSE LET month == CHOOSE m \in 1..12 :
                            /\ DaysBeforeMonth(year, m) <= r1
                            /\ r1 < DaysBeforeMonth(year, m) + DaysInMonth(year, m)
            IN [year |-> year, month |-> month,
                day |-> r1 - DaysBeforeMonth(year, month) + 1]

\* datetime(year, month, day, hour, minute, second, microsecond)
DateTime(y, mo, d, h, mi, s, us) ==
    [year |-> y, month |-> mo, day |-> d, hour |-> h, minute |-> mi,
     second |-> s, microsecond |-> us, tz |-> "naive", utcoffset |-> 0]

\* the constructor's range check: it raises ValueError when this is false
ValidDate(y, mo, d) ==
    /\ 1 <= y /\ y <= 9999
    /\ 1 <= mo /\ mo <= 12
    /\ 1 <= d /\ d <= DaysInMonth(y, mo)

ToOrdinal(dt) == Ymd2Ord(dt.year, dt.month, dt.day)

\* datetime.weekday(): Monday is 0
Weekday(dt) == (ToOrdinal(dt) + 6) % 7

\* placeholder carried by a result that holds no datetime
NoDateTime ==
    [year |-> 0, month |-> 0, day |-> 0, hour |-> 0, minute |-> 0,
     second |-> 0, microsecond |-> 0, tz |-> "none", utcoffset |-> 0]

Returned(rule, dt) == [kind |-> "datetime", rule |-> rule, exc |-> "", value |-> dt]
ReturnedNone == [kind |-> "None", rule |-> "", exc |-> "", value |-> NoDateTime]
Raised(e) == [kind |-> "raise", rule |-> "", exc |-> e, value |-> NoDateTime]
Pending == [kind |-> "pending", rule |-> "", exc |-> "", value |-> NoDateTime]

\* timedelta(days=days, seconds=seconds), already normalised (0 <= seconds < 86400):
\* the constructor raises OverflowError beyond 999999999 days
TimedeltaOverflows(days) == days > 999999999 \/ days < -999999999

\* dt + timedelta(days=days, seconds=seconds): the result, or OverflowError when
\* the date leaves 0001-01-01 .. 9999-12-31
PlusTimedelta(dt, days, seconds) ==
    LET secs == dt.hour * 3600 + dt.minute * 60 + dt.second + seconds
        ord  == ToOrdinal(dt) + days + secs \div 86400
        rem  == secs % 86400
        ymd  == Ord2Ymd(ord)
    IN IF TimedeltaOverflows(days) \/ ord < 1 \/ ord > MaxOrdinal
       THEN Raised("OverflowError")
       ELSE Returned("", [dt EXCEPT !.year = ymd.year, !.month = ymd.month,
                                    !.day = ymd.day,
                                    !.hour = rem \div 3600,
                                    !.minute = (rem % 3600) \div 60,
                                    !.second = rem % 60])

\* ReplaceTime without microsecond=0
ReplaceTime_KeepMicrosecond(dt, h, mi, s) ==
    [dt EXCEPT !.hour = h, !.minute = mi, !.second = s]

\* dt.replace(hour=h, minute=mi, second=s, microsecond=0)
ReplaceTime(dt, h, mi, s) ==
    [dt EXCEPT !.hour = h, !.minute = mi, !.second = s, !.microsecond = 0]

\* a <= b for two naive datetimes
DateTimeLeq(a, b) ==
    LET ka == <<a.year, a.month, a.day, a.hour, a.minute, a.second, a.microsecond>>
        kb == <<b.year, b.month, b.day, b.hour, b.minute, b.second, b.microsecond>>
    IN \/ ka = kb
       \/ \E i \in 1..7 : ka[i] < kb[i] /\ \A j \in 1..(i - 1) : ka[j] = kb[j]

---------------------------------------------------------------------------
(* parse_time_string *)

NoMatch == [matched |-> FALSE, g1 |-> <<>>, g2 |-> <<>>, g3 |-> <<>>]

\* re.match(r'(\d{1,2})\s*([ap])m?$', time_str)
SimpleAmpmMatch(s) ==
    LET k == RunOfDigits(s, 1, 2)
        i == k + RunOfSpaces(s, k + 1) + 1
    IN IF /\ k >= 1
          /\ i <= Len(s)
          /\ s[i] \in {"a", "p"}
          /\ (i = Len(s) \/ (i + 1 = Len(s) /\ s[i + 1] = "m"))
       THEN [matched |-> TRUE, g1 |-> SubSeq(s, 1, k), g2 |-> <<s[i]>>, g3 |-> <<>>]
       ELSE NoMatch

\* re.match(r'(\d{1,2}):(\d{2})\s*([ap])m?$', time_str)
AmpmWithMinutesMatch(s) ==
    LET k == RunOfDigits(s, 1, 2)
        i == k + 4 + RunOfSpaces(s, k + 4)
    IN IF /\ k >= 1
          /\ k + 1 <= Len(s) /\ s[k + 1] = ":"
          /\ RunOfDigits(s, k + 2, 2) = 2
          /\ i <= Len(s)
          /\ s[i] \in {"a", "p"}
          /\ (i = Len(s) \/ (i + 1 = Len(s) /\ s[i + 1] = "m"))
       THEN [matched |-> TRUE, g1 |-> SubSeq(s, 1, k),
             g2 |-> SubSeq(s, k + 2, k + 3), g3 |-> <<s[i]>>]
       ELSE NoMatch

\* re.match(r'(\d{1,2}):(\d{2})(?::(\d{2}))?$', time_str)
MilitaryTimeMatch(s) ==
    LET k == RunOfDigits(s, 1, 2)
    IN IF /\ k >= 1
          /\ k + 1 <= Len(s) /\ s[k + 1] = ":"
          /\ RunOfDigits(s, k + 2, 2) = 2
          /\ \/ Len(s) = k + 3
             \/ /\ Len(s) = k + 6
                /\ s[k + 4] = ":"
                /\ RunOfDigits(s, k + 5, 2) = 2
       THEN [matched |-> TRUE, g1 |-> SubSeq(s, 1, k),
             g2 |-> SubSeq(s, k + 2, k + 3),
             g3 |-> IF Len(s) = k + 6 THEN SubSeq(s, k + 5, k + 6) ELSE <<>>]
       ELSE NoMatch

\* MeridiemHour without "elif not is_pm and hour == 12: hour = 0"
MeridiemHour_NoMidnight(hour, is_pm) ==
    IF is_pm /\ hour /= 12 THEN hour + 12 ELSE hour

\* the AM/PM conversion of both meridiem rules
MeridiemHour(hour, is_pm) ==
    IF is_pm /\ hour /= 12 THEN hour + 12
    ELSE IF ~is_pm /\ hour = 12 THEN 0
    ELSE hour

\* rule 1: hour + meridiem; None when the rule does not return and the next is tried
SimpleAmpmRule(s, now) ==
    LET m == SimpleAmpmMatch(s)
        hour == MeridiemHour(IntOf(m.g1), m.g2 = <<"p">>)
    IN IF m.matched /\ 0 <= hour /\ hour <= 23
       THEN Returned("simple_ampm", ReplaceTime(now, hour, 0, 0))
       ELSE ReturnedNone

\* rule 2: hour:minute + meridiem
AmpmWithMinutesRule(s, now) ==
    LET m == AmpmWithMinutesMatch(s)
        hour == MeridiemHour(IntOf(m.g1), m.g3 = <<"p">>)
        minute == IntOf(m.g2)
    IN IF m.matched /\ 0 <= hour /\ hour <= 23 /\ 0 <= minute /\ minute <= 59
       THEN Returned("ampm_with_minutes", ReplaceTime(now, hour, minute, 0))
       ELSE ReturnedNone

\* rule 3: 24-hour clock, with optional seconds
MilitaryTimeRule(s, now) ==
    LET m == MilitaryTimeMatch(s)
        hour == IntOf(m.g1)
        minute == IntOf(m.g2)
        second == IntOf(m.g3)
    IN IF /\ m.matched
          /\ 0 <= hour /\ hour <= 23
          /\ 0 <= minute /\ minute <= 59
          /\ 0 <= second /\ second <= 59
       THEN Returned("military_time", ReplaceTime(now, hour, minute, second))
       ELSE ReturnedNone

\* rule 4: a string of digits; int() raises ValueError on a digit that is no decimal
BareHourRule(s, now) ==
    IF ~IsDigitStr(s) THEN ReturnedNone
    ELSE IF ~IntAccepts(s) THEN Raised("ValueError")
    ELSE LET hour == IntOf(s)
         IN IF 0 <= hour /\ hour <= 23
            THEN Returned("bare_hour", ReplaceTime(now, hour, 0, 0))
            ELSE IF 1 <= hour /\ hour <= 12
            THEN Returned("pm_bias",
                          ReplaceTime(now, IF hour /= 12 THEN hour + 12 ELSE 12, 0, 0))
            ELSE ReturnedNone

\* the first rule of the list, in order, that returns; None when none does
RECURSIVE FirstResult(_)
FirstResult(rs) ==
    IF Len(rs) = 0 THEN ReturnedNone
    ELSE IF rs[1].kind /= "None" THEN rs[1]
    ELSE FirstResult(Tail(rs))

\* parse_time_string(time_str), with the clock reading now
parse_time_string(time_str, now) ==
    IF Len(time_str) = 0 THEN ReturnedNone
    ELSE LET s == Lower(Strip(time_str))
         IN FirstResult(<<SimpleAmpmRule(s, now), AmpmWithMinutesRule(s, now),
                          MilitaryTimeRule(s, now), BareHourRule(s, now)>>)

---------------------------------------------------------------------------
(* parse_date_string *)

\* date_str.strip().lower(), then the a.m./p.m. replacements
Normalise(raw) ==
    Replace(Replace(Lower(Strip(raw)), <<"a", ".", "m", ".">>, <<"a", "m">>),
            <<"p", ".", "m", ".">>, <<"p", "m">>)

\* the alternation (m|min|mins|minutes?|h|hr|hrs|hours?|d|days?), in the order the
\* regex engine tries it
UnitAlternatives ==
    << <<"m">>, <<"m", "i", "n">>, <<"m", "i", "n", "s">>,
       <<"m", "i", "n", "u", "t", "e", "s">>, <<"m", "i", "n", "u", "t", "e">>,
       <<"h">>, <<"h", "r">>, <<"h", "r", "s">>,
       <<"h", "o", "u", "r", "s">>, <<"h", "o", "u", "r">>,
       <<"d">>, <<"d", "a", "y", "s">>, <<"d", "a", "y">> >>

MinuteUnits == {UnitAlternatives[i] : i \in 1..5}
HourUnits == {UnitAlternatives[i] : i \in 6..10}
DayUnits == {UnitAlternatives[i] : i \in 11..13}

\* re.match(r'in\s+(\d+)\s*(m|min|...|d|days?)', date_str): a match of a prefix
RelativeMatch(s) ==
    LET w1 == RunOfSpaces(s, 3)
        k  == RunOfDigits(s, 3 + w1, Len(s))
        u  == 3 + w1 + k + RunOfSpaces(s, 3 + w1 + k)
        alts == {i \in 1..Len(UnitAlternatives) : StartsWithAt(s, u, UnitAlternatives[i])}
    IN IF StartsWithAt(s, 1, <<"i", "n">>) /\ w1 >= 1 /\ k >= 1 /\ alts /= {}
       THEN [matched |-> TRUE, g1 |-> SubSeq(s, 3 + w1, 2 + w1 + k),
             g2 |-> UnitAlternatives[CHOOSE i \in alts : \A j \in alts : i <= j],
             g3 |-> <<>>]
       ELSE NoMatch

\* rule 1: "in X minutes/hours/days"
RelativeRule(s, now) ==
    LET m == RelativeMatch(s)
        amount == IntOf(m.g1)
        sum == IF m.g2 \in MinuteUnits
               THEN PlusTimedelta(now, amount \div 1440, (amount % 1440) * 60)
               ELSE IF m.g2 \in HourUnits
               THEN PlusTimedelta(now, amount \div 24, (amount % 24) * 3600)
               ELSE PlusTimedelta(now, amount, 0)
    IN IF ~m.matched \/ m.g2 \notin (MinuteUnits \cup HourUnits \cup DayUnits)
       THEN ReturnedNone
       ELSE IF sum.kind = "raise" THEN sum
       ELSE Returned("relative", sum.value)

\* the alternation (mon|tue|...|sun|monday|...|sunday), in the regex's order
DayAlternatives ==
    << <<"m", "o", "n">>, <<"t", "u", "e">>, <<"w", "e", "d">>, <<"t", "h", "u">>,
       <<"f", "r", "i">>, <<"s", "a", "t">>, <<"s", "u", "n">>,
       <<"m", "o", "n", "d", "a", "y">>, <<"t", "u", "e", "s", "d", "a", "y">>,
       <<"w", "e", "d", "n", "e", "s", "d", "a", "y">>,
       <<"t", "h", "u", "r", "s", "d", "a", "y">>, <<"f", "r", "i", "d", "a", "y">>,
       <<"s", "a", "t", "u", "r", "d", "a", "y">>, <<"s", "u", "n", "d", "a", "y">> >>

\* day_mapping: Monday = 0
DayMapping(i) == (i - 1) % 7

\* re.match(r'(mon|...|sunday)\s+(.+)', date_str): g1 is the index of the day name
\* matched, g2 what follows the white space
DowTimeMatch(s) ==
    LET fits(i) == LET n == Len(DayAlternatives[i])
                       w == RunOfSpaces(s, n + 1)
                   IN StartsWithAt(s, 1, DayAlternatives[i]) /\ w >= 1
                      /\ (n + w < Len(s) \/ w >= 2)
        alts == {i \in 1..Len(DayAlternatives) : fits(i)}
        best == CHOOSE i \in alts : \A j \in alts : i <= j
        n == Len(DayAlternatives[best])
        w == RunOfSpaces(s, n + 1)
    IN IF alts = {} THEN NoMatch
       ELSE [matched |-> TRUE, g1 |-> <<best>>,
             g2 |-> IF n + w < Len(s) THEN From(s, n + w + 1) ELSE From(s, Len(s)),
             g3 |-> <<>>]

\* WeekdayRule without "if days_ahead == 0: days_ahead = 7"
WeekdayRule_NoBump(s, now) ==
    LET m == DowTimeMatch(s)
        target_weekday == DayMapping(m.g1[1])
        time_obj == parse_time_string(m.g2, now)
        days_ahead == (target_weekday - Weekday(now)) % 7
        target_date == PlusTimedelta(now, days_ahead, 0)
    IN IF ~m.matched \/ time_obj.kind = "None" THEN ReturnedNone
       ELSE IF time_obj.kind = "raise" THEN time_obj
       ELSE IF target_date.kind = "raise" THEN target_date
       ELSE Returned("weekday",
                     ReplaceTime(target_date.value, time_obj.value.hour,
                                 time_obj.value.minute, 0))

\* rule 2: day of week + time
WeekdayRule(s, now) ==
    LET m == DowTimeMatch(s)
        target_weekday == DayMapping(m.g1[1])
        time_obj == parse_time_string(m.g2, now)
        diff == (target_weekday - Weekday(now)) % 7
        days_ahead == IF diff = 0 THEN 7 ELSE diff
        target_date == PlusTimedelta(now, days_ahead, 0)
    IN IF ~m.matched \/ time_obj.kind = "None" THEN ReturnedNone
       ELSE IF time_obj.kind = "raise" THEN time_obj
       ELSE IF target_date.kind = "raise" THEN target_date
       ELSE Returned("weekday",
                     ReplaceTime(target_date.value, time_obj.value.hour,
                                 time_obj.value.minute, 0))

Tomorrow == <<"t", "o", "m", "o", "r", "r", "o", "w">>

\* the qualifiers of the "tomorrow" rule, in the order of the if/elif chain
Qualifiers ==
    << [word |-> <<"m", "o", "r", "n", "i", "n", "g">>, hour |-> 9],
       [word |-> <<"a", "f", "t", "e", "r", "n", "o", "o", "n">>, hour |-> 14],
       [word |-> <<"e", "v", "e", "n", "i", "n", "g">>, hour |-> 18],
       [word |-> <<"n", "i", "g", "h", "t">>, hour |-> 20] >>

\* rule 3: "tomorrow" with optional time
TomorrowRule(s, now) ==
    LET tomorrow == PlusTimedelta(now, 1, 0)
        found == {i \in 1..Len(Qualifiers) : Contains(s, Qualifiers[i].word)}
        first == CHOOSE i \in found : \A j \in found : i <= j
        time_part == Strip(Replace(s, Tomorrow, <<>>))
        time_obj == IF Len(time_part) > 0 THEN parse_time_string(time_part, now)
                    ELSE ReturnedNone
    IN IF ~Contains(s, Tomorrow) THEN ReturnedNone
       ELSE IF tomorrow.kind = "raise" THEN tomorrow
       ELSE IF found /= {}
       THEN Returned("tomorrow", ReplaceTime(tomorrow.value, Qualifiers[first].hour, 0, 0))
       ELSE IF time_obj.kind = "raise" THEN time_obj
       ELSE IF time_obj.kind = "datetime"
       THEN Returned("tomorrow", ReplaceTime(tomorrow.value, time_obj.value.hour,
                                             time_obj.value.minute, 0))
       ELSE Returned("tomorrow", ReplaceTime(tomorrow.value, 9, 0, 0))

\* NextWeekRule with the weekday rule's bump of a zero offset to 7
NextWeekRule_Bump(s, now) ==
    LET next_week == PlusTimedelta(now, 7, 0)
        diff == (0 - Weekday(next_week.value)) % 7
        next_monday == PlusTimedelta(next_week.value, IF diff = 0 THEN 7 ELSE diff, 0)
    IN IF ~Contains(s, <<"n", "e", "x", "t", " ", "w", "e", "e", "k">>) THEN ReturnedNone
       ELSE IF next_week.kind = "raise" THEN next_week
       ELSE IF next_monday.kind = "raise" THEN next_monday
       ELSE Returned("next_week", ReplaceTime(next_monday.value, 9, 0, 0))

\* rule 4: "next week"
NextWeekRule(s, now) ==
    LET next_week == PlusTimedelta(now, 7, 0)
        days_to_monday == (0 - Weekday(next_week.value)) % 7
        next_monday == PlusTimedelta(next_week.value, days_to_monday, 0)
    IN IF ~Contains(s, <<"n", "e", "x", "t", " ", "w", "e", "e", "k">>) THEN ReturnedNone
       ELSE IF next_week.kind = "raise" THEN next_week
       ELSE IF next_monday.kind = "raise" THEN next_monday
       ELSE Returned("next_week", ReplaceTime(next_monday.value, 9, 0, 0))

\* BareTimeRule with "result < now" for "result <= now"
BareTimeRule_StrictLess(s, now) ==
    LET time_obj == parse_time_string(s, now)
        result == ReplaceTime(now, time_obj.value.hour, time_obj.value.minute, 0)
        rolled == PlusTimedelta(result, 1, 0)
    IN IF time_obj.kind /= "datetime" THEN time_obj
       ELSE IF ~DateTimeLeq(result, now) \/ result = now THEN Returned("bare_time", result)
       ELSE IF rolled.kind = "raise" THEN rolled
       ELSE Returned("bare_time", rolled.value)

\* rule 5: just a time (today, or tomorrow when that time has passed)
BareTimeRule(s, now) ==
    LET time_obj == parse_time_string(s, now)
        result == ReplaceTime(now, time_obj.value.hour, time_obj.value.minute, 0)
        rolled == PlusTimedelta(result, 1, 0)
    IN IF time_obj.kind /= "datetime" THEN time_obj
       ELSE IF ~DateTimeLeq(result, now) THEN Returned("bare_time", result)
       ELSE IF rolled.kind = "raise" THEN rolled
       ELSE Returned("bare_time", rolled.value)

\* two ASCII digits at positions i, i+1
TwoDigitsAt(s, i) == i + 1 <= Len(s) /\ IsReDigit(s[i]) /\ IsReDigit(s[i + 1])

\* the time part of an ISO string, HH[:MM[:SS]]: its fields, ok FALSE when malformed
\* or out of range
IsoTime(t) ==
    LET wellFormed == /\ Len(t) \in {2, 5, 8}
                      /\ TwoDigitsAt(t, 1)
                      /\ Len(t) >= 5 => (t[3] = ":" /\ TwoDigitsAt(t, 4))
                      /\ Len(t) >= 8 => (t[6] = ":" /\ TwoDigitsAt(t, 7))
        h  == IntOf(SubSeq(t, 1, 2))
        mi == IF Len(t) >= 5 THEN IntOf(SubSeq(t, 4, 5)) ELSE 0
        sc == IF Len(t) >= 8 THEN IntOf(SubSeq(t, 7, 8)) ELSE 0
    IN IF wellFormed /\ h <= 23 /\ mi <= 59 /\ sc <= 59
       THEN [ok |-> TRUE, hour |-> h, minute |-> mi, second |-> sc]
       ELSE [ok |-> FALSE, hour |-> 0, minute |-> 0, second |-> 0]

\* the UTC offset of an ISO string, "Z" or +HH:MM or -HH:MM, in minutes
IsoOffset(z) ==
    LET h  == IntOf(SubSeq(z, 2, 3))
        mi == IntOf(SubSeq(z, 5, 6))
    IN IF z = <<"Z">> THEN [ok |-> TRUE, minutes |-> 0]
       ELSE IF /\ Len(z) = 6 /\ z[1] \in {"+", "-"} /\ TwoDigitsAt(z, 2)
               /\ z[4] = ":" /\ TwoDigitsAt(z, 5) /\ h <= 23 /\ mi <= 59
       THEN [ok |-> TRUE, minutes |-> IF z[1] = "-" THEN 0 - (h * 60 + mi) ELSE h * 60 + mi]
       ELSE [ok |-> FALSE, minutes |-> 0]

\* datetime.fromisoformat(s) for the extended forms YYYY-MM-DD and
\* YYYY-MM-DD<sep>HH[:MM[:SS]][Z|+HH:MM|-HH:MM]; everything else is ValueError
\* here (the basic forms, week dates and fractions of a second are not modelled,
\* and no phrase of the model has them)
FromIsoFormat(s) ==
    LET dateOk == /\ Len(s) >= 10
                  /\ \A i \in {1, 2, 3, 4, 6, 7, 9, 10} : IsReDigit(s[i])
                  /\ s[5] = "-" /\ s[8] = "-"
        y  == IntOf(SubSeq(s, 1, 4))
        mo == IntOf(SubSeq(s, 6, 7))
        d  == IntOf(SubSeq(s, 9, 10))
        t  == From(s, 12)
        zs == {i \in 1..Len(t) : t[i] \in {"-", "+", "Z"}}
        zp == IF zs = {} THEN Len(t) + 1 ELSE CHOOSE i \in zs : \A j \in zs : i <= j
        tm == IsoTime(SubSeq(t, 1, zp - 1))
        off == IsoOffset(From(t, zp))
    IN IF ~dateOk \/ Len(s) = 11 THEN Raised("ValueError")
       ELSE IF ~ValidDate(y, mo, d) THEN Raised("ValueError")
       ELSE IF Len(s) = 10 THEN Returned("", DateTime(y, mo, d, 0, 0, 0, 0))
       ELSE IF ~tm.ok \/ (zs /= {} /\ ~off.ok) THEN Raised("ValueError")
       ELSE Returned("", [DateTime(y, mo, d, tm.hour, tm.minute, tm.second, 0)
                            EXCEPT !.tz = IF zs = {} THEN "naive" ELSE "aware",
                                   !.utcoffset = IF zs = {} THEN 0 ELSE off.minutes])

\* rule 6: ISO date format; a ValueError is caught and the next rule is tried
IsoRule(s, now) ==
    LET parsed == FromIsoFormat(Replace(s, <<"Z">>, <<"+", "0", "0", ":", "0", "0">>))
    IN IF parsed.kind = "raise" THEN ReturnedNone
       ELSE Returned("iso", parsed.value)

\* re.match(r'(\d{1,2})[/\-](\d{1,2})[/\-](\d{4})', date_str): a match of a prefix
DateMatch(s) ==
    LET k1 == RunOfDigits(s, 1, 2)
        k2 == RunOfDigits(s, k1 + 2, 2)
        y0 == k1 + k2 + 3
    IN IF /\ k1 >= 1
          /\ k1 + 1 <= Len(s) /\ s[k1 + 1] \in {"/", "-"}
          /\ k2 >= 1
          /\ y0 - 1 <= Len(s) /\ s[y0 - 1] \in {"/", "-"}
          /\ RunOfDigits(s, y0, 4) = 4
       THEN [matched |-> TRUE, g1 |-> SubSeq(s, 1, k1),
             g2 |-> SubSeq(s, k1 + 2, k1 + k2 + 1), g3 |-> SubSeq(s, y0, y0 + 3)]
       ELSE NoMatch

\* SlashDateRule reading DD/MM/YYYY
SlashDateRule_DayFirst(s, now) ==
    LET m == DateMatch(s)
        day == IntOf(m.g1)
        month == IntOf(m.g2)
        year == IntOf(m.g3)
    IN IF m.matched /\ ValidDate(year, month, day)
       THEN Returned("slash_date", DateTime(year, month, day, 9, 0, 0, 0))
       ELSE ReturnedNone

\* rule 7: MM/DD/YYYY; the constructor's ValueError is caught
SlashDateRule(s, now) ==
    LET m == DateMatch(s)
        month == IntOf(m.g1)
        day == IntOf(m.g2)
        year == IntOf(m.g3)
    IN IF m.matched /\ ValidDate(year, month, day)
       THEN Returned("slash_date", DateTime(year, month, day, 9, 0, 0, 0))
       ELSE ReturnedNone

\* the rules of parse_date_string, in the order of the function body
RuleResult(i, s, now) ==
    CASE i = 1 -> RelativeRule(s, now)
      [] i = 2 -> WeekdayRule(s, now)
      [] i = 3 -> TomorrowRule(s, now)
      [] i = 4 -> NextWeekRule(s, now)
      [] i = 5 -> BareTimeRule(s, now)
      [] i = 6 -> IsoRule(s, now)
      [] i = 7 -> SlashDateRule(s, now)

\* what the function body does from rule i on: the first rule that returns or
\* raises ends the call, and after the last rule the function returns None
RECURSIVE Cascade(_, _, _)
Cascade(i, s, now) ==
    IF i > 7 THEN ReturnedNone
    ELSE LET r == RuleResult(i, s, now)
         IN IF r.kind /= "None" THEN r ELSE Cascade(i + 1, s, now)

\* parse_date_string(date_str), with the clock reading now.  The argument is
\* [type, chars]: a str with its characters, None, or another object
parse_date_string(date_str, now) ==
    IF date_str.type /= "str" \/ Len(date_str.chars) = 0 THEN ReturnedNone
    ELSE Cascade(1, Normalise(date_str.chars), now)

---------------------------------------------------------------------------
(* The calls the model makes: the arguments and the clock readings. *)

\* bounds of the model
MaxAmount == 2
NumRefDays == 7

\* phrases that start with a day name
WeekdayPhrases ==
    {
      <<"m", "o", "n", " ", "9", "a">>,
      <<"M", "o", "n", " ", "9", "a">>,
      <<"t", "u", "e", " ", "2", "p">>,
      <<"w", "e", "d", " ", "1", "0", ":", "3", "0", "a">>,
      <<"T", "h", "u", "r", "s", "d", "a", "y", " ", "1", "4", ":", "3", "0">>,
      <<"f", "r", "i", " ", "9">>,
      <<"s", "a", "t", " ", "1", "2", "a", "m">>,
      <<"s", "u", "n", " ", "1", "2", "p", "m">>,
      <<"m", "o", "n", "d", "a", "y", " ", "2", ":", "3", "0", "p", "m">>,
      <<"m", "o", "n", " ", "1", "4", ":", "3", "0", ":", "4", "5">>,
      <<"T", "u", "e", "s", "d", "a", "y", " ", "9", " ", "a", ".", "m", ".">>,
      <<"s", "u", "n", "d", "a", "y", " ", "9">>,
      <<"m", "o", "n", " ", "x", "y", "z">>,
      <<"m", "o", "n", " ", "t", "o", "m", "o", "r", "r", "o", "w">>,
      <<"m", "o", "n", " ", "2", "5", ":", "0", "0">>,
      <<"m", "o", "n", " ", "1", "3", "p", "m">>,
      <<"m", "o", "n", " ", "^2">>,
      <<"w", "e", "d", " ", "n", "e", "x", "t", " ", "w", "e", "e", "k">>
    }

\* phrases that hold "tomorrow"
TomorrowPhrases ==
    {
      <<"t", "o", "m", "o", "r", "r", "o", "w">>,
      <<"t", "o", "m", "o", "r", "r", "o", "w", " ", "m", "o", "r", "n", "i", "n", "g">>,
      <<"t", "o", "m", "o", "r", "r", "o", "w", " ", "a", "f", "t", "e", "r", "n", "o", "o", "n">>,
      <<"t", "o", "m", "o", "r", "r", "o", "w", " ", "e", "v", "e", "n", "i", "n", "g">>,
      <<"T", "o", "m", "o", "r", "r", "o", "w", " ", "N", "i", "g", "h", "t">>,
      <<"t", "o", "m", "o", "r", "r", "o", "w", " ", "3", "p", "m">>,
      <<"3", "p", "m", " ", "t", "o", "m", "o", "r", "r", "o", "w">>,
      <<"t", "o", "m", "o", "r", "r", "o", "w", " ", "1", "4", ":", "3", "0">>,
      <<"t", "o", "m", "o", "r", "r", "o", "w", " ", "a", "t", " ", "3", "p", "m">>,
      <<"t", "o", "m", "o", "r", "r", "o", "w", " ", "e", "v", "e", "n", "i", "n", "g", " ", "o", "r", " ", "m", "o", "r", "n", "i", "n", "g">>,
      <<"t", "o", "m", "o", "r", "r", "o", "w", " ", "^2">>,
      <<"d", "a", "y", " ", "a", "f", "t", "e", "r", " ", "t", "o", "m", "o", "r", "r", "o", "w">>,
      <<"t", "o", "m", "o", "r", "r", "o", "w", " ", "n", "e", "x", "t", " ", "w", "e", "e", "k">>
    }

\* phrases that hold "next week"
NextWeekPhrases ==
    {
      <<"n", "e", "x", "t", " ", "w", "e", "e", "k">>,
      <<"s", "o", "m", "e", "t", "i", "m", "e", " ", "n", "e", "x", "t", " ", "w", "e", "e", "k">>,
      <<"N", "e", "x", "t", " ", "W", "e", "e", "k", " ", "9", "a", "m">>
    }

\* phrases that are a time of day, or nearly one
BareTimePhrases ==
    {
      <<"9", "a", "m">>,
      <<"2", "p", "m">>,
      <<"9", "a">>,
      <<"1", "2", "a", "m">>,
      <<"1", "2", "p", "m">>,
      <<"2", ":", "3", "0", "p", "m">>,
      <<"2", ":", "3", "0", " ", "p", ".", "m", ".">>,
      <<"1", "4", ":", "3", "0">>,
      <<"1", "4", ":", "3", "0", ":", "4", "5">>,
      <<"1", "0", ":", "0", "0">>,
      <<"9">>,
      <<"2", "3">>,
      <<"0">>,
      <<"2", "4">>,
      <<"9", "9", "a">>,
      <<"1", "3", "p", "m">>,
      <<"9", ":", "6", "0", "a", "m">>,
      <<"^2">>,
      <<" ", "9", " ", "A", "M", " ">>,
      <<"n", "o", "o", "n">>
    }

\* ISO-8601 phrases, some with values out of range
IsoPhrases ==
    {
      <<"2", "0", "2", "4", "-", "0", "1", "-", "1", "5", "T", "1", "0", ":", "0", "0", ":", "0", "0", "Z">>,
      <<"2", "0", "2", "4", "-", "0", "3", "-", "0", "5", "t", "0", "8", ":", "1", "5", ":", "0", "0", "z">>,
      <<"2", "0", "2", "4", "-", "0", "1", "-", "1", "5", "T", "1", "0", ":", "0", "0", ":", "0", "0">>,
      <<"2", "0", "2", "4", "-", "0", "1", "-", "1", "5", "T", "1", "0", ":", "0", "0", ":", "3", "0">>,
      <<"2", "0", "2", "4", "-", "0", "1", "-", "1", "5">>,
      <<"2", "0", "2", "4", "-", "0", "1", "-", "1", "5", "T", "1", "0", ":", "0", "0", ":", "0", "0", "+", "0", "0", ":", "0", "0">>,
      <<"2", "0", "2", "4", "-", "0", "1", "-", "1", "5", "T", "1", "0", ":", "0", "0", ":", "3", "0", "+", "0", "5", ":", "3", "0">>,
      <<"2", "0", "2", "4", "-", "0", "2", "-", "3", "0">>,
      <<"2", "0", "2", "4", "-", "0", "1", "-", "1", "5", "T", "2", "5", ":", "0", "0", ":", "0", "0">>,
      <<"2", "0", "2", "5", "-", "0", "6", "-", "3", "0", " ", "2", "3", ":", "5", "9">>
    }

\* slash and dash dates, some with values out of range
SlashDatePhrases ==
    {
      <<"0", "1", "/", "1", "5", "/", "2", "0", "2", "4">>,
      <<"1", "/", "5", "/", "2", "0", "2", "4">>,
      <<"0", "1", "-", "1", "5", "-", "2", "0", "2", "4">>,
      <<"1", "2", "/", "3", "1", "/", "1", "9", "9", "9">>,
      <<"0", "2", "/", "2", "9", "/", "2", "0", "2", "4">>,
      <<"0", "2", "/", "2", "9", "/", "2", "0", "2", "3">>,
      <<"0", "2", "/", "3", "0", "/", "2", "0", "2", "4">>,
      <<"1", "3", "/", "0", "1", "/", "2", "0", "2", "4">>,
      <<"0", "1", "/", "0", "0", "/", "2", "0", "2", "4">>,
      <<"0", "0", "/", "1", "0", "/", "2", "0", "2", "4">>,
      <<"0", "1", "/", "1", "5", "/", "0", "0", "0", "0">>,
      <<"0", "1", "/", "1", "5", "/", "2", "0", "2", "4", " ", "5", "p", "m">>,
      <<"1", "/", "1", "5", "/", "2", "4">>,
      <<"1", "5", ".", "0", "1", ".", "2", "0", "2", "4">>
    }

\* relative offsets with other units, spacing or trailing text
RelativeVariants ==
    {
      <<"i", "n", " ", "5", " ", "m", "o", "n", "t", "h", "s">>,
      <<"i", "n", " ", "3", " ", "d", "e", "c", "a", "d", "e", "s">>,
      <<"i", "n", " ", "2", " ", "h", "o", "u", "r", "s", " ", "a", "n", "d", " ", "a", " ", "b", "i", "t">>,
      <<"i", "n", " ", "4", "5", "m">>,
      <<"I", "n", " ", "2", "H">>,
      <<"i", "n", " ", " ", "3", " ", " ", " ", "d">>,
      <<"i", "n", " ", "5">>,
      <<"i", "n", " ", "f", "i", "v", "e", " ", "m">>,
      <<"i", "n", "5", "m">>,
      <<"i", "n", " ", "1", " ", "d", "a", "y", " ", "t", "o", "m", "o", "r", "r", "o", "w">>,
      <<"i", "n", " ", "1", "0", " ", "d", "o", "g", "s">>,
      <<"i", "n", " ", "7", " ", "w", "e", "e", "k", "s">>
    }

\* text no rule is written for
OtherPhrases ==
    {
      <<" ", " ", " ">>,
      <<"x", "y", "z">>,
      <<"h", "e", "l", "l", "o", " ", "w", "o", "r", "l", "d">>
    }

\* the unit words the relative rule documents
UnitWords == {UnitAlternatives[i] : i \in 1..Len(UnitAlternatives)}

\* the amounts of the generated relative phrases: small ones, one that crosses
\* midnight in minutes, and ones that carry the result past 9999-12-31 (in days
\* or hours) or the timedelta past its 999999999 days
Amounts == (0..MaxAmount) \cup {45, 1500, 3000000, 1000000000}

\* "in <n> <unit>"
RelativePhrase(n, unit) == <<"i", "n", " ">> \o StrOf(n) \o <<" ">> \o unit

RelativePhrases == {RelativePhrase(n, u) : n \in Amounts, u \in UnitWords}

Phrases ==
    WeekdayPhrases \cup TomorrowPhrases \cup NextWeekPhrases \cup BareTimePhrases
    \cup IsoPhrases \cup SlashDatePhrases \cup RelativeVariants \cup OtherPhrases
    \cup RelativePhrases

StrArg(chars) == [type |-> "str", chars |-> chars]
NoneArg == [type |-> "None", chars |-> <<>>]
IntArg == [type |-> "int", chars |-> <<>>]

\* the arguments given to parse_date_string
DateArgs == {StrArg(p) : p \in Phrases} \cup {StrArg(<<>>), NoneArg, IntArg}

\* fragments given to parse_time_string
TimeFragments ==
    {
      <<"9", "a">>,
      <<"9", "a", "m">>,
      <<"9", " ", "a", "m">>,
      <<"2", "p">>,
      <<"2", "p", "m">>,
      <<"1", "2", "a">>,
      <<"1", "2", "a", "m">>,
      <<"1", "2", "p">>,
      <<"1", "2", "p", "m">>,
      <<"0", "a">>,
      <<"0", "p", "m">>,
      <<"1", "3", "a", "m">>,
      <<"1", "3", "p", "m">>,
      <<"2", "3", "p">>,
      <<"9", "9", "a">>,
      <<"9", "9", "p">>,
      <<"9", ":", "3", "0", "a">>,
      <<"2", ":", "4", "5", "p", "m">>,
      <<"1", "2", ":", "0", "5", "a", "m">>,
      <<"1", "2", ":", "0", "5", "p", "m">>,
      <<"1", "3", ":", "0", "0", "p", "m">>,
      <<"9", ":", "6", "0", "a", "m">>,
      <<"1", "4", ":", "3", "0">>,
      <<"0", "9", ":", "0", "0">>,
      <<"1", "4", ":", "3", "0", ":", "4", "5">>,
      <<"2", "3", ":", "5", "9", ":", "5", "9">>,
      <<"2", "4", ":", "0", "0">>,
      <<"1", "2", ":", "6", "0">>,
      <<"1", "0", ":", "0", "0", ":", "6", "0">>,
      <<"9">>,
      <<"0">>,
      <<"1", "2">>,
      <<"1", "3">>,
      <<"2", "3">>,
      <<"2", "4">>,
      <<"9", "9">>,
      <<"0", "0", "7">>,
      <<"^2">>,
      <<"1", "^2">>,
      <<" ", "9", "A", "M", " ">>,
      <<"x", "y", "z">>,
      <<"9", "x">>
    }

\* the arguments given to parse_time_string
TimeArgs == {StrArg(f) : f \in TimeFragments} \cup {StrArg(<<>>), NoneArg}

\* the dates of the clock readings: NumRefDays consecutive days from Monday
\* 2024-01-15 (every weekday), a leap day and a year's last day
RefDates ==
    {Ord2Ymd(Ymd2Ord(2024, 1, 15) + k) : k \in 0..(NumRefDays - 1)}
    \cup {[year |-> 2024, month |-> 2, day |-> 29],
          [year |-> 2023, month |-> 12, day |-> 31]}

\* the times of day of the clock readings: <<hour, minute, second, microsecond>>
RefTimes == {<<10, 0, 0, 0>>, <<9, 0, 0, 0>>, <<14, 30, 0, 1>>, <<23, 59, 30, 500000>>}

\* the values datetime.now() returns
References ==
    {DateTime(d.year, d.month, d.day, t[1], t[2], t[3], t[4]) : d \in RefDates, t \in RefTimes}

---------------------------------------------------------------------------
(* The state machine: one call of either entry point. *)

VARIABLES
    fn,        \* the entry point called
    arg,       \* its argument
    now,       \* what datetime.now() returns during the call
    result     \* Pending before the call ends, then what it returned or raised

vars == <<fn, arg, now, result>>

Init ==
    /\ fn \in {"parse_date_string", "parse_time_string"}
    /\ arg \in (IF fn = "parse_date_string" THEN DateArgs ELSE TimeArgs)
    /\ now \in References
    /\ result = Pending

\* a call of parse_date_string runs to its end
CallParseDateString ==
    /\ fn = "parse_date_string"
    /\ result = Pending
    /\ result' = parse_date_string(arg, now)
    /\ UNCHANGED <<fn, arg, now>>

\* a call of parse_time_string runs to its end
CallParseTimeString ==
    /\ fn = "parse_time_string"
    /\ result = Pending
    /\ result' = IF arg.type = "None" THEN ReturnedNone
                 ELSE parse_time_string(arg.chars, now)
    /\ UNCHANGED <<fn, arg, now>>

Next == CallParseDateString \/ CallParseTimeString

Spec == Init /\ [][Next]_vars

---------------------------------------------------------------------------
(* Vocabulary of the properties. *)

\* a call of parse_date_string on a non-empty str has ended
DateCallEnded ==
    /\ fn = "parse_date_string"
    /\ result.kind /= "pending"
    /\ arg.type = "str"
    /\ Len(arg.chars) > 0

\* the phrase after trimming, lowercasing and the a.m./p.m. replacements
Phrase == Normalise(arg.chars)

\* whole calendar days from the date of a to the date of b
DaysBetween(a, b) == ToOrdinal(b) - ToOrdinal(a)

\* an instant as <<day number, second of the day, microsecond>>
Stamp(dt) == <<ToOrdinal(dt), dt.hour * 3600 + dt.minute * 60 + dt.second, dt.microsecond>>

\* the instant a is strictly before the instant b
StrictlyBefore(a, b) ==
    LET x == Stamp(a)
        y == Stamp(b)
    IN \/ x[1] < y[1]
       \/ x[1] = y[1] /\ x[2] < y[2]
       \/ x[1] = y[1] /\ x[2] = y[2] /\ x[3] < y[3]

\* the instant b is at most 24 hours after the instant a
WithinOneDay(a, b) ==
    LET x == Stamp(a)
        y == Stamp(b)
    IN \/ y[1] <= x[1]
       \/ y[1] = x[1] + 1 /\ (y[2] < x[2] \/ (y[2] = x[2] /\ y[3] <= x[3]))

\* rule i of parse_date_string neither returns nor raises on the phrase
RuleSkipped(i) == RuleResult(i, Phrase, now).kind = "None"

---------------------------------------------------------------------------
(* C1: every call of parse_date_string ends by returning a timestamp or    *)
(* None; no exception leaves the parser, whatever the input (None, a       *)
(* non-string, empty or blank text, gibberish, out-of-range values, a      *)
(* relative offset with an arbitrarily large amount).                      *)
C1_NoExceptionEscapes ==
    (fn = "parse_date_string" /\ result.kind /= "pending")
        => result.kind \in {"datetime", "None"}

---------------------------------------------------------------------------
(* C2: for every amount n >= 0 and every documented unit word,             *)
(* parse_date_string("in n unit") returns exactly the reference plus n     *)
(* minutes, hours or days (n = 0 gives the reference itself), never an     *)
(* instant before the reference.                                           *)
C2_RelativeOffsetExact ==
    \A n \in Amounts : \A u \in UnitWords :
        (DateCallEnded /\ arg.chars = RelativePhrase(n, u)) =>
            /\ result.kind = "datetime"
            /\ ~StrictlyBefore(result.value, now)
            /\ result.value.microsecond = now.microsecond
            /\ result.value.second = now.second
            /\ result.value.tz = now.tz
            /\ IF u \in DayUnits
               THEN /\ DaysBetween(now, result.value) = n
                    /\ result.value.hour = now.hour
                    /\ result.value.minute = now.minute
               ELSE IF u \in HourUnits
               THEN /\ DaysBetween(now, result.value) * 24
                          + result.value.hour - now.hour = n
                    /\ result.value.minute = now.minute
               ELSE DaysBetween(now, result.value) * 1440
                       + (result.value.hour - now.hour) * 60
                       + result.value.minute - now.minute = n

---------------------------------------------------------------------------
(* C3: for a phrase "<weekday> <time>" whose time fragment parses, the     *)
(* result falls on the named weekday, 1 to 7 calendar days after the       *)
(* reference date (7 when the reference is already that weekday, so never  *)
(* on the reference's own date), at the hour and minute of the time        *)
(* fragment, with seconds and microseconds zero.                           *)
C3_WeekdayNextOccurrence ==
    LET m == DowTimeMatch(Phrase)
        target == DayMapping(m.g1[1])
        time_obj == parse_time_string(m.g2, now)
        ahead == DaysBetween(now, result.value)
    IN (DateCallEnded /\ m.matched /\ time_obj.kind = "datetime") =>
          /\ result.kind = "datetime"
          /\ Weekday(result.value) = target
          /\ ahead \in 1..7
          /\ ahead % 7 = (target - Weekday(now)) % 7
          /\ Weekday(now) = target => ahead = 7
          /\ result.value.hour = time_obj.value.hour
          /\ result.value.minute = time_obj.value.minute
          /\ result.value.second = 0
          /\ result.value.microsecond = 0

\* C3's case: the phrase names the reference's own weekday and the result is a week on
C3_Witness ==
    /\ DateCallEnded
    /\ result.rule = "weekday"
    /\ arg.chars = <<"M", "o", "n", " ", "9", "a">>
    /\ Weekday(now) = 0
    /\ DaysBetween(now, result.value) = 7
    /\ result.value.hour = 9

---------------------------------------------------------------------------
(* C4: when the whole phrase is a time of day and no earlier rule matched, *)
(* the result is that time on the reference's date if that is strictly     *)
(* after the reference, and otherwise the same time one day later (a time  *)
(* equal to the reference rolls forward too); so the result is strictly    *)
(* after the reference and at most 24 hours after it.  At reference        *)
(* 2024-01-15T10:00:00, "9am" gives 2024-01-16T09:00:00 and "2pm" gives    *)
(* 2024-01-15T14:00:00.                                                    *)
C4_BareTimeRollover ==
    LET time_obj == parse_time_string(Phrase, now)
        today == [now EXCEPT !.hour = time_obj.value.hour,
                             !.minute = time_obj.value.minute,
                             !.second = 0, !.microsecond = 0]
    IN /\ (DateCallEnded /\ (\A i \in 1..4 : RuleSkipped(i))
                         /\ time_obj.kind = "datetime") =>
             /\ result.kind = "datetime"
             /\ result.value.hour = today.hour
             /\ result.value.minute = today.minute
             /\ result.value.second = 0
             /\ result.value.microsecond = 0
             /\ DaysBetween(now, result.value)
                    = (IF StrictlyBefore(now, today) THEN 0 ELSE 1)
             /\ StrictlyBefore(now, result.value)
             /\ WithinOneDay(now, result.value)
       /\ (DateCallEnded /\ now = DateTime(2024, 1, 15, 10, 0, 0, 0)) =>
             /\ arg.chars = <<"9", "a", "m">>
                   => result.value = DateTime(2024, 1, 16, 9, 0, 0, 0)
             /\ arg.chars = <<"2", "p", "m">>
                   => result.value = DateTime(2024, 1, 15, 14, 0, 0, 0)

\* C4's case: the time named is the reference itself, and the result is a day on
C4_Witness ==
    /\ DateCallEnded
    /\ result.rule = "bare_time"
    /\ arg.chars = <<"1", "0", ":", "0", "0">>
    /\ now = DateTime(2024, 1, 15, 10, 0, 0, 0)
    /\ result.value = DateTime(2024, 1, 16, 10, 0, 0, 0)

---------------------------------------------------------------------------
(* C5: a phrase that holds "next week" and is not matched by rules 1-3     *)
(* yields the first Monday on or after reference + 7 days, at 09:00:00:    *)
(* 7 to 13 calendar days after the reference date, and exactly 7 when the  *)
(* reference is itself a Monday (no extra week is added).                  *)
C5_NextWeekMonday ==
    LET ahead == DaysBetween(now, result.value)
    IN (DateCallEnded
          /\ Contains(Phrase, <<"n", "e", "x", "t", " ", "w", "e", "e", "k">>)
          /\ \A i \in 1..3 : RuleSkipped(i)) =>
          /\ result.kind = "datetime"
          /\ Weekday(result.value) = 0
          /\ ahead \in 7..13
          /\ Weekday(now) = 0 => ahead = 7
          /\ result.value.hour = 9
          /\ result.value.minute = 0
          /\ result.value.second = 0
          /\ result.value.microsecond = 0

\* C5's case: reference + 7 days is a Monday and the result is that Monday
C5_Witness ==
    /\ DateCallEnded
    /\ result.rule = "next_week"
    /\ Weekday(now) = 0
    /\ result.value = [now EXCEPT !.day = now.day + 7, !.hour = 9, !.minute = 0,
                                  !.second = 0, !.microsecond = 0]

---------------------------------------------------------------------------
(* C6: every phrase that holds "tomorrow" and is not matched by rules 1-2  *)
(* succeeds, one calendar day after the reference date whatever the        *)
(* reference's time: at 09:00 / 14:00 / 18:00 / 20:00 for the first of     *)
(* "morning", "afternoon", "evening", "night" found in that order,         *)
(* otherwise at the time parsed from the phrase with "tomorrow" removed,   *)
(* and at 09:00 when that remainder is empty or does not parse; seconds    *)
(* and microseconds are zero.  The rule never gives no-match.              *)
C6_TomorrowAlwaysSucceeds ==
    LET found == {i \in 1..Len(Qualifiers) : Contains(Phrase, Qualifiers[i].word)}
        first == CHOOSE i \in found : \A j \in found : i <= j
        rest == Strip(Replace(Phrase, Tomorrow, <<>>))
        time_obj == parse_time_string(rest, now)
        parses == Len(rest) > 0 /\ time_obj.kind = "datetime"
        hour == IF found /= {} THEN Qualifiers[first].hour
                ELSE IF parses THEN time_obj.value.hour ELSE 9
        minute == IF found = {} /\ parses THEN time_obj.value.minute ELSE 0
    IN (DateCallEnded /\ Contains(Phrase, Tomorrow) /\ RuleSkipped(1) /\ RuleSkipped(2)) =>
          /\ result.kind = "datetime"
          /\ DaysBetween(now, result.value) = 1
          /\ result.value.hour = hour
          /\ result.value.minute = minute
          /\ result.value.second = 0
          /\ result.value.microsecond = 0

---------------------------------------------------------------------------
(* C7, as stated: every timestamp parse_date_string returns, by any rule   *)
(* and for any reference, has seconds and microseconds zero.               *)
C7_SecondsAlwaysZero ==
    (DateCallEnded /\ result.kind = "datetime") =>
        result.value.second = 0 /\ result.value.microsecond = 0

\* the seconds written in an ISO phrase YYYY-MM-DD<sep>HH:MM:SS..., 0 when it has none
C7_IsoSecondsWritten ==
    IF Len(Phrase) >= 19 /\ Phrase[17] = ":" THEN IntOf(SubSeq(Phrase, 18, 19)) ELSE 0

(* C7, amended: a timestamp returned by the weekday, "tomorrow", "next     *)
(* week", bare-time or slash-date rule has seconds and microseconds zero;  *)
(* one returned by the relative-offset rule carries the reference's        *)
(* seconds and microseconds, and one returned by the ISO rule carries the  *)
(* seconds written in the phrase.                                          *)
C7_SecondsZeroExceptRelativeAndIso ==
    (DateCallEnded /\ result.kind = "datetime") =>
        /\ result.rule \in {"relative", "weekday", "tomorrow", "next_week",
                            "bare_time", "iso", "slash_date"}
        /\ result.rule \notin {"relative", "iso"} =>
              result.value.second = 0 /\ result.value.microsecond = 0
        /\ result.rule = "relative" =>
              /\ result.value.second = now.second
              /\ result.value.microsecond = now.microsecond
        /\ result.rule = "iso" =>
              /\ result.value.second = C7_IsoSecondsWritten
              /\ result.value.microsecond = 0

\* C7's case: the reference has seconds and microseconds, the bare-time result has none
C7_Witness ==
    /\ DateCallEnded
    /\ result.rule = "bare_time"
    /\ now.second = 30
    /\ now.microsecond = 500000
    /\ result.value.second = 0
    /\ result.value.microsecond = 0

---------------------------------------------------------------------------
(* C8: a phrase that is an ISO-8601 datetime ending in "Z" has the Z       *)
(* rewritten to "+00:00" before the ISO parse, so the parse succeeds and   *)
(* returns that instant with a zero UTC offset.                            *)
C8_IsoZSuffixParses ==
    LET n == Len(arg.chars)
        rewritten == FromIsoFormat(Lower(SubSeq(arg.chars, 1, n - 1))
                                   \o <<"+", "0", "0", ":", "0", "0">>)
    IN (DateCallEnded /\ arg.chars[n] = "Z" /\ rewritten.kind = "datetime") =>
          /\ result.kind = "datetime"
          /\ result.value = rewritten.value
          /\ result.value.tz = "aware"
          /\ result.value.utcoffset = 0

---------------------------------------------------------------------------
\* a year, month and day that name a day of the calendar
C9_IsCalendarDate(y, mo, d) ==
    /\ y \in 1..9999
    /\ mo \in 1..12
    /\ d >= 1
    /\ d <= (CASE mo \in {1, 3, 5, 7, 8, 10, 12} -> 31
               [] mo \in {4, 6, 9, 11} -> 30
               [] OTHER -> IF y % 4 = 0 /\ (y % 100 /= 0 \/ y % 400 = 0) THEN 29 ELSE 28)

(* C9: a phrase of the form <1-2 digits>[/ or -]<1-2 digits>[/ or -]       *)
(* <4 digits> is read as month/day/year and gives that date at 09:00:00    *)
(* whatever the reference ("01/15/2024" gives 2024-01-15T09:00:00); when   *)
(* the values are no calendar date (month 13, day 0, February 30, year     *)
(* 0000) the result is None and nothing is raised.                         *)
C9_SlashDateMonthDayYear ==
    LET m == DateMatch(Phrase)
        whole == m.matched /\ Len(Phrase) = Len(m.g1) + Len(m.g2) + 6
        mo == IntOf(m.g1)
        d == IntOf(m.g2)
        y == IntOf(m.g3)
    IN /\ (DateCallEnded /\ whole) =>
             IF C9_IsCalendarDate(y, mo, d)
             THEN /\ result.kind = "datetime"
                  /\ result.value = [year |-> y, month |-> mo, day |-> d, hour |-> 9,
                                     minute |-> 0, second |-> 0, microsecond |-> 0,
                                     tz |-> "naive", utcoffset |-> 0]
             ELSE result.kind = "None"
       /\ (DateCallEnded /\ arg.chars = <<"0", "1", "/", "1", "5", "/", "2", "0", "2", "4">>) =>
             result.value = DateTime(2024, 1, 15, 9, 0, 0, 0)

\* C9's case: "01/15/2024" read with a reference on another date
C9_Witness ==
    /\ DateCallEnded
    /\ arg.chars = <<"0", "1", "/", "1", "5", "/", "2", "0", "2", "4">>
    /\ now.month = 2
    /\ result.rule = "slash_date"
    /\ result.value.month = 1
    /\ result.value.day = 15
    /\ result.value.year = 2024
    /\ result.value.hour = 9

---------------------------------------------------------------------------
(* C10: the relative-offset rule resolves a phrase only when the whole     *)
(* normalised phrase is "in <integer> <unit>" with a documented unit word: *)
(* a phrase with another unit word or with text after the unit ("in 5      *)
(* months", "in 3 decades", "in 2 hours and a bit") is not resolved by it. *)
C10_RelativeWholePhraseOnly ==
    LET w1 == RunOfSpaces(Phrase, 3)
        k  == RunOfDigits(Phrase, 3 + w1, Len(Phrase))
        u  == 3 + w1 + k + RunOfSpaces(Phrase, 3 + w1 + k)
    IN (DateCallEnded /\ result.rule = "relative") =>
          /\ StartsWithAt(Phrase, 1, <<"i", "n">>)
          /\ w1 >= 1
          /\ k >= 1
          /\ From(Phrase, u) \in UnitWords

---------------------------------------------------------------------------
\* rule i of parse_date_string matches the phrase: it yields a timestamp
C11_RuleMatches(i) == RuleResult(i, Phrase, now).kind = "datetime"

(* C11: the rules are tried in the order relative offset, weekday + time,  *)
(* "tomorrow", "next week", bare time, ISO, slash date, and the result is  *)
(* always that of the first rule that matches; a                           *)
(* phrase that starts with a weekday name but whose remainder fails the    *)
(* time-of-day parse is still evaluated by the later rules ("mon tomorrow" *)
(* is resolved by the "tomorrow" rule), and a phrase that matches the      *)
(* relative pattern is resolved by the relative rule even if it also holds *)
(* "tomorrow" or "next week".                                              *)
C11_FirstMatchingRuleWins ==
    LET dow == DowTimeMatch(Phrase)
        rest == parse_time_string(dow.g2, now)
    IN DateCallEnded =>
          /\ \A i \in 1..7 :
                (C11_RuleMatches(i) /\ \A j \in 1..(i - 1) : ~C11_RuleMatches(j))
                    => result = RuleResult(i, Phrase, now)
          /\ (dow.matched /\ rest.kind /= "datetime")
                => /\ result.rule /= "weekday"
                   /\ result = Cascade(3, Phrase, now)
          /\ arg.chars = <<"m", "o", "n", " ", "t", "o", "m", "o", "r", "r", "o", "w">>
                => result.rule = "tomorrow"
          /\ RelativeMatch(Phrase).matched => result.rule = "relative"

---------------------------------------------------------------------------
(* Vocabulary of the properties of parse_time_string. *)

\* a call of parse_time_string on a non-empty str has ended
TimeCallEnded ==
    /\ fn = "parse_time_string"
    /\ result.kind /= "pending"
    /\ arg.type = "str"
    /\ Len(arg.chars) > 0

\* the fragment after trimming and lowercasing
Fragment == Lower(Strip(arg.chars))

\* the hour + meridiem rule's hour on a 24-hour clock, as the rule describes it:
\* PM adds 12 except to 12, and 12 AM is 0
C12_ConvertedHour(hour, meridiem) ==
    CASE meridiem = <<"p">> /\ hour /= 12 -> hour + 12
      [] meridiem = <<"a">> /\ hour = 12 -> 0
      [] OTHER -> hour

(* C12, as stated: for every fragment that matches the hour + meridiem     *)
(* pattern (a 1-2 digit hour, 'a' or 'p', optional 'm'), the hour after    *)
(* the AM/PM conversion lies within 0-23, so the range guard never rejects *)
(* a pattern-matching fragment; the minute is 0.                           *)
C12_GuardNeverRejects ==
    LET m == SimpleAmpmMatch(Fragment)
        hour == C12_ConvertedHour(IntOf(m.g1), m.g2)
    IN (TimeCallEnded /\ m.matched) =>
          /\ hour \in 0..23
          /\ result.kind = "datetime"
          /\ result.value.hour = hour
          /\ result.value.minute = 0

(* C12, amended: for a fragment that matches the hour + meridiem pattern,  *)
(* the hour after the AM/PM conversion lies within 0-23 exactly when the   *)
(* written hour is 0-12 with 'p' or 0-23 with 'a' (so for every hour       *)
(* 1-12); then the rule returns that hour with minute 0.  For a written    *)
(* hour of 13-99 with 'p' (converted to 25-111) or 24-99 with 'a' the      *)
(* range guard rejects the fragment, and the result is no-match.           *)
C12_GuardRejectsOnlyOutOfRange ==
    LET m == SimpleAmpmMatch(Fragment)
        written == IntOf(m.g1)
        hour == C12_ConvertedHour(written, m.g2)
        inRange == IF m.g2 = <<"p">> THEN written <= 12 ELSE written <= 23
    IN (TimeCallEnded /\ m.matched) =>
          /\ (hour \in 0..23) <=> inRange
          /\ written \in 1..12 => inRange
          /\ inRange => /\ result.kind = "datetime"
                        /\ result.rule = "simple_ampm"
                        /\ result.value.hour = hour
                        /\ result.value.minute = 0
                        /\ result.value.second = 0
          /\ ~inRange => result.kind = "None"

\* C12's case: "13pm" matches the pattern, converts to 25 and is rejected by the guard
C12_Witness ==
    /\ TimeCallEnded
    /\ arg.chars = <<"1", "3", "p", "m">>
    /\ SimpleAmpmMatch(Fragment).matched
    /\ C12_ConvertedHour(IntOf(SimpleAmpmMatch(Fragment).g1), <<"p">>) = 25
    /\ result.kind = "None"

---------------------------------------------------------------------------
(* C13: for every digits-only fragment, parse_time_string gives hour =     *)
(* the fragment's value with minute 0 when the value is 0-23 and no-match  *)
(* otherwise; the "1-12 means PM, add 12" branch is never taken, so a bare *)
(* digit is always a direct 24-hour value ("9" is 09:00, never 21:00).     *)
C13_BareDigitsDirectHour ==
    (TimeCallEnded /\ IsDigitStr(Fragment)) =>
        /\ result.kind \in {"datetime", "None"}
        /\ result.rule /= "pm_bias"
        /\ IntAccepts(Fragment) =>
              IF IntOf(Fragment) <= 23
              THEN /\ result.kind = "datetime"
                   /\ result.value.hour = IntOf(Fragment)
                   /\ result.value.minute = 0
              ELSE result.kind = "None"
        /\ arg.chars = <<"9">> => result.value.hour = 9

===========================================================================
